---- MODULE Spec2Model ----
(***************************************************************************)
(* Model of src/01.py: process_vcf, the single pass that rewrites REF, ALT *)
(* and INFO[SVTYPE] of the VCF records whose ID contains a keyword.        *)
(*                                                                         *)
(* Strings that the code inspects character by character (identifiers, the *)
(* keyword, sequences of bases) are sequences of one-character strings.    *)
(***************************************************************************)
EXTENDS Integers, Sequences, FiniteSets, TLC

VARIABLES
    input_vcf,        \* the records of the input file, in document order
    genome_fasta,     \* the reference genome: contig name -> sequence of bases
    keyword,          \* the keyword argument
    bounds_mode,      \* what a slice past the end of a contig does: "empty" | "raise"
    pc,               \* position in process_vcf
    genome,           \* state of the Fasta handle
    reader,           \* state of the vcfpy.Reader
    writer,           \* state of the vcfpy.Writer
    idx,              \* number of records the loop has taken from the reader
    output_vcf,       \* the records written so far, in order
    origin,           \* for each written record, the index of the input record it came from
    processed_count,  \* the counter of line 73/99
    stderr,           \* the diagnostics printed to sys.stderr, in order
    memory,           \* the record objects the loop has handled, as the loop body left them
    outcomes,         \* how the loop body ended on each of them
    exit_code,        \* the exit status of the process: NoExit while it runs, then 0 or 1
    fatal,            \* the step whose exception reached the outer handlers, or "none"
    run,              \* 1 for a first run, 2 for a run over the first run's output
    first_output      \* the output of the first run, once a second run has started

vars == <<input_vcf, genome_fasta, keyword, bounds_mode, pc, genome, reader, writer,
          idx, output_vcf, origin, processed_count, stderr, memory, outcomes,
          exit_code, fatal, run, first_output>>

(***************************************************************************)
(* Bounds                                                                  *)
(***************************************************************************)
MaxRecords == 3

\* the value of exit_code while the process has not ended
NoExit == -1

(***************************************************************************)
(* Strings                                                                 *)
(***************************************************************************)
Min(a, b) == IF a < b THEN a ELSE b

\* str.upper() on one character of a sequence of bases
Upper(c) ==
    CASE c = "a" -> "A"
      [] c = "c" -> "C"
      [] c = "g" -> "G"
      [] c = "t" -> "T"
      [] c = "n" -> "N"
      [] OTHER   -> c

UpperStr(s) == [i \in 1..Len(s) |-> Upper(s[i])]

\* Python's  kw in s  for strings: kw occurs in s as a contiguous substring
Contains(kw, s) ==
    \E i \in 0..(Len(s) - Len(kw)) : SubSeq(s, i + 1, i + Len(kw)) = kw

\* Python's s[a:b] for 0 <= a <= b: the slice is cut at the end of s
Slice(s, a, b) == SubSeq(s, a + 1, Min(b, Len(s)))

(***************************************************************************)
(* Records                                                                 *)
(***************************************************************************)
\* vcfpy.SymbolicAllele(value), written <value>
SymbolicAllele(value) == [kind |-> "symbolic", value |-> value]

\* record.ID: a list of strings, a single string, or None.  val holds the
\* strings: the list's elements, or the one scalar string, or nothing.
IdOfList(ids) == [kind |-> "list", val |-> ids]
IdOfScalar(s) == [kind |-> "scalar", val |-> <<s>>]
IdNone == [kind |-> "none", val |-> <<>>]

\* Python's truth value of record.ID (line 80, "record.ID and ...")
Truthy(id) ==
    CASE id.kind = "list"   -> Len(id.val) > 0
      [] id.kind = "scalar" -> Len(id.val[1]) > 0
      [] OTHER              -> FALSE

\* line 79 followed by str(_id) of line 80: the strings the keyword is sought in
id_list(id) ==
    CASE id.kind = "list"   -> id.val
      [] id.kind = "scalar" -> <<id.val[1]>>
      [] OTHER              -> << <<"N", "o", "n", "e">> >>

\* A plausible slip: the test of the identifiers themselves is left out.
Matches_anyId(rec, kw) == Truthy(rec.ID)

\* line 80: record.ID and any(keyword in str(_id) for _id in id_list)
Matches(rec, kw) ==
    /\ Truthy(rec.ID)
    /\ \E i \in 1..Len(id_list(rec.ID)) : Contains(kw, id_list(rec.ID)[i])

\* record.INFO is an insertion-ordered mapping: a sequence of entries with
\* pairwise different keys.
InfoKeys(info) == {info[i].key : i \in 1..Len(info)}

InfoGet(info, k) ==
    IF k \in InfoKeys(info)
    THEN (CHOOSE e \in {info[i] : i \in 1..Len(info)} : e.key = k).value
    ELSE "absent"

\* A plausible slip: the mapping is rebuilt with the one key.
InfoSet_rebuild(info, k, v) == <<[key |-> k, value |-> v]>>

\* line 97: record.INFO[k] = v, a dict assignment: an existing key keeps its
\* place and takes the value, a new key goes last.
InfoSet(info, k, v) ==
    IF k \in InfoKeys(info)
    THEN [i \in 1..Len(info) |->
             IF info[i].key = k THEN [key |-> k, value |-> v] ELSE info[i]]
    ELSE Append(info, [key |-> k, value |-> v])

\* A plausible slip: the new allele is added to the alleles already there.
DupAlt_append(alt) == Append(alt, SymbolicAllele("DUP"))

\* line 93: the list assigned to record.ALT
DupAlt(alt) == <<SymbolicAllele("DUP")>>

(***************************************************************************)
(* The reference genome                                                    *)
(***************************************************************************)
\* A plausible slip: the 1-based POS used as the 0-based start of the slice.
Lookup_noShift(g, chrom, pos, mode) ==
    IF chrom \notin DOMAIN g
    THEN [exc |-> "KeyError", seq |-> <<>>]
    ELSE IF pos > Len(g[chrom]) /\ mode = "raise"
         THEN [exc |-> "Exception", seq |-> <<>>]
         ELSE [exc |-> "none", seq |-> UpperStr(Slice(g[chrom], pos, pos + 1))]

\* line 87: genome[chrom][pos - 1:pos].seq.upper().  genome[chrom] raises
\* KeyError for a contig the file does not hold.  A slice that starts past
\* the end of the contig is the library's business: it yields the empty
\* sequence or raises an error that is not a KeyError (bounds_mode).
Lookup(g, chrom, pos, mode) ==
    IF chrom \notin DOMAIN g
    THEN [exc |-> "KeyError", seq |-> <<>>]
    ELSE IF pos > Len(g[chrom]) /\ mode = "raise"
         THEN [exc |-> "Exception", seq |-> <<>>]
         ELSE [exc |-> "none", seq |-> UpperStr(Slice(g[chrom], pos - 1, pos))]

(***************************************************************************)
(* The body of the loop                                                    *)
(***************************************************************************)
\* A plausible slip: REF is assigned before the lookup is known to succeed.
TryBody_refFirst(rec, g, mode) ==
    LET l == Lookup(g, rec.CHROM, rec.POS, mode)
    IN  IF l.exc # "none"
        THEN [record |-> [rec EXCEPT !.REF = l.seq], exc |-> l.exc, count |-> 0]
        ELSE [record |-> [rec EXCEPT !.REF = l.seq,
                                     !.ALT = DupAlt(@),
                                     !.INFO = InfoSet(@, "SVTYPE", "DUP")],
              exc |-> "none", count |-> 1]

\* lines 82-99: the try block.  The only statement that raises is the lookup
\* of line 87, before any assignment to the record and before line 99.
TryBody(rec, g, mode) ==
    LET l == Lookup(g, rec.CHROM, rec.POS, mode)
    IN  IF l.exc # "none"
        THEN [record |-> rec, exc |-> l.exc, count |-> 0]
        ELSE [record |-> [rec EXCEPT !.REF = l.seq,
                                     !.ALT = DupAlt(@),
                                     !.INFO = InfoSet(@, "SVTYPE", "DUP")],
              exc |-> "none", count |-> 1]

\* A plausible slip: only the KeyError handler is there.
Caught_keyErrorOnly(exc) == exc = "KeyError"

\* lines 101 and 104: the exceptions the handlers of the inner try take
Caught(exc) == exc \in {"KeyError", "Exception"}

\* lines 79-106: one record through the test and the try statement
LoopBody(rec, g, kw, mode) ==
    IF ~Matches(rec, kw)
    THEN [record |-> rec, outcome |-> "skipped", count |-> 0]
    ELSE LET t == TryBody(rec, g, mode)
             outcome == CASE t.exc = "none"     -> "processed"
                          [] ~Caught(t.exc)     -> "uncaught"
                          [] t.exc = "KeyError" -> "contig_not_found"
                          [] OTHER              -> "error"
         IN  [record |-> t.record, outcome |-> outcome, count |-> t.count]

\* lines 103, 106, 109: both handlers end in continue, so write_record is
\* reached by the records that did not match and by those rewritten.
ReachesWrite(outcome) == outcome \in {"skipped", "processed"}

\* lines 102 and 105: the warning a handler prints
Warning(rec, outcome) == [kind |-> outcome, chrom |-> rec.CHROM, pos |-> rec.POS]

(***************************************************************************)
(* Inputs                                                                  *)
(***************************************************************************)
Rec(chrom, pos, id, ref, alt, info) ==
    [CHROM |-> chrom, POS |-> pos, ID |-> id, REF |-> ref, ALT |-> alt, INFO |-> info]

Entry(k, v) == [key |-> k, value |-> v]

IdDup == <<"x", "D", "U", "P", "1">>
IdIns == <<"I", "N", "S">>
IdLow == <<"d", "u", "p">>
AltIns == <<SymbolicAllele("INS")>>

\* The records an input file is made of: identifiers that hold the keyword,
\* hold it in another case, hold it only split over two identifiers, or are
\* missing; positions inside and past the contig; contigs present and absent;
\* SVTYPE first, in the middle, absent.
Records ==
    { Rec("chr1", 1, IdOfScalar(IdDup), <<"N">>, AltIns,
          <<Entry("END", "600"), Entry("SVTYPE", "INS"), Entry("AF", "1")>>),
      Rec("chr1", 2, IdOfList(<<IdIns, IdDup>>), <<"N">>, AltIns,
          <<Entry("END", "600")>>),
      Rec("chr1", 3, IdOfScalar(IdDup), <<"N">>, AltIns,
          <<Entry("SVTYPE", "INS"), Entry("END", "600")>>),
      Rec("chrX", 1, IdOfList(<<IdDup>>), <<"N">>, AltIns,
          <<Entry("SVTYPE", "INS")>>),
      Rec("chr1", 1, IdOfList(<<IdLow>>), <<"N">>, AltIns,
          <<Entry("SVTYPE", "INS")>>),
      Rec("chr1", 2, IdOfList(<<>>), <<"c">>, <<[kind |-> "literal", value |-> "CT"]>>,
          <<>>),
      Rec("chrX", 1, IdNone, <<"N">>, AltIns,
          <<Entry("SVTYPE", "INS")>>),
      Rec("chr1", 2, IdOfScalar(IdIns), <<"N">>, AltIns,
          <<Entry("END", "600"), Entry("SVTYPE", "INS")>>),
      Rec("chr1", 1, IdOfList(<<<<"D", "U">>, <<"P">>>>), <<"N">>, AltIns,
          <<Entry("SVTYPE", "DEL")>>) }

\* The reference genomes: one without chrX, with a lower-case base, and one
\* with chrX and a shorter chr1.
Genomes ==
    { [c \in {"chr1"} |-> <<"G", "a">>],
      [c \in {"chr1", "chrX"} |-> IF c = "chr1" THEN <<"c">> ELSE <<"t", "N">>] }

Keywords == { <<"D", "U", "P">>, <<"I", "N">> }

BoundsModes == {"empty", "raise"}

\* All sequences of at most n records
RECURSIVE SeqsUpTo(_)
SeqsUpTo(n) ==
    IF n = 0 THEN { <<>> }
    ELSE LET shorter == SeqsUpTo(n - 1)
         IN  shorter \cup { Append(s, r) : s \in shorter, r \in Records }

(***************************************************************************)
(* process_vcf                                                             *)
(***************************************************************************)
Init ==
    /\ input_vcf \in SeqsUpTo(MaxRecords)
    /\ genome_fasta \in Genomes
    /\ keyword \in Keywords
    /\ bounds_mode \in BoundsModes
    /\ pc = "open_genome"
    /\ genome = "unopened"
    /\ reader = "unopened"
    /\ writer = "unopened"
    /\ idx = 0
    /\ output_vcf = <<>>
    /\ origin = <<>>
    /\ processed_count = 0
    /\ stderr = <<>>
    /\ memory = <<>>
    /\ outcomes = <<>>
    /\ exit_code = NoExit
    /\ fatal = "none"
    /\ run = 1
    /\ first_output = <<>>

inputs == <<input_vcf, genome_fasta, keyword, bounds_mode, run, first_output>>
loopState == <<idx, output_vcf, origin, processed_count, memory, outcomes>>

\* lines 119-124: an exception that reaches the outer handlers is printed
\* and the process exits with status 1; nothing is closed on this path.
Abort(step, exc) ==
    /\ pc' = "exited"
    /\ exit_code' = 1
    /\ fatal' = step
    /\ stderr' = Append(stderr, [kind |-> exc, chrom |-> "", pos |-> 0])

\* what opening a file can raise
OpenErrors == {"FileNotFoundError", "Exception"}

\* line 63: genome = Fasta(genome_fasta)
OpenGenome ==
    /\ pc = "open_genome"
    /\ \/ /\ genome' = "open"
          /\ pc' = "open_reader"
          /\ UNCHANGED <<stderr, exit_code, fatal>>
       \/ /\ \E exc \in OpenErrors : Abort("open_genome", exc)
          /\ UNCHANGED genome
    /\ UNCHANGED <<inputs, loopState, reader, writer>>

\* line 67: reader = vcfpy.Reader.from_path(input_vcf)
OpenReader ==
    /\ pc = "open_reader"
    /\ \/ /\ reader' = "open"
          /\ pc' = "open_writer"
          /\ UNCHANGED <<stderr, exit_code, fatal>>
       \/ /\ \E exc \in OpenErrors : Abort("open_reader", exc)
          /\ UNCHANGED reader
    /\ UNCHANGED <<inputs, loopState, genome, writer>>

\* lines 71-73: writer = vcfpy.Writer.from_path(...); processed_count = 0
OpenWriter ==
    /\ pc = "open_writer"
    /\ \/ /\ writer' = "open"
          /\ pc' = "loop"
          /\ processed_count' = 0
          /\ UNCHANGED <<stderr, exit_code, fatal>>
       \/ /\ \E exc \in OpenErrors : Abort("open_writer", exc)
          /\ UNCHANGED <<writer, processed_count>>
    /\ UNCHANGED <<inputs, idx, output_vcf, origin, memory, outcomes, genome, reader>>

\* lines 77-109, one iteration: the reader yields the next record, the loop
\* body handles it, and a record that reaches line 109 is written.
ProcessRecord ==
    /\ pc = "loop"
    /\ idx < Len(input_vcf)
    /\ LET record == input_vcf[idx + 1]
           b == LoopBody(record, genome_fasta, keyword, bounds_mode)
       IN  /\ idx' = idx + 1
           /\ memory' = Append(memory, b.record)
           /\ outcomes' = Append(outcomes, b.outcome)
           /\ processed_count' = processed_count + b.count
           /\ IF b.outcome = "uncaught"
              THEN /\ Abort("record", "Exception")
                   /\ UNCHANGED <<output_vcf, origin>>
              ELSE /\ pc' = "loop"
                   /\ stderr' = IF b.outcome \in {"contig_not_found", "error"}
                                THEN Append(stderr, Warning(record, b.outcome))
                                ELSE stderr
                   /\ output_vcf' = IF ReachesWrite(b.outcome)
                                    THEN Append(output_vcf, b.record)
                                    ELSE output_vcf
                   /\ origin' = IF ReachesWrite(b.outcome)
                                THEN Append(origin, idx + 1)
                                ELSE origin
                   /\ UNCHANGED <<exit_code, fatal>>
    /\ UNCHANGED <<inputs, genome, reader, writer>>

\* line 77: the reader raises on a line it cannot parse or read
ReadFails ==
    /\ pc = "loop"
    /\ idx < Len(input_vcf)
    /\ Abort("read_record", "Exception")
    /\ UNCHANGED <<inputs, loopState, genome, reader, writer>>

\* line 109: write_record raises; the loop body has run on the record
WriteFails ==
    /\ pc = "loop"
    /\ idx < Len(input_vcf)
    /\ LET record == input_vcf[idx + 1]
           b == LoopBody(record, genome_fasta, keyword, bounds_mode)
       IN  /\ ReachesWrite(b.outcome)
           /\ idx' = idx + 1
           /\ memory' = Append(memory, b.record)
           /\ outcomes' = Append(outcomes, b.outcome)
           /\ processed_count' = processed_count + b.count
    /\ Abort("write_record", "Exception")
    /\ UNCHANGED <<inputs, output_vcf, origin, genome, reader, writer>>

\* lines 112-117: the loop is over; the three handles are closed and
\* process_vcf returns, so the process ends with status 0.
Finish ==
    /\ pc = "loop"
    /\ idx = Len(input_vcf)
    /\ writer' = "closed"
    /\ reader' = "closed"
    /\ genome' = "closed"
    /\ pc' = "done"
    /\ exit_code' = 0
    /\ UNCHANGED <<inputs, loopState, stderr, fatal>>

\* line 112: writer.close() raises (the flush fails); lines 113-114 are not run
CloseFails ==
    /\ pc = "loop"
    /\ idx = Len(input_vcf)
    /\ Abort("close", "Exception")
    /\ UNCHANGED <<inputs, loopState, genome, reader, writer>>

Next ==
    \/ OpenGenome
    \/ OpenReader
    \/ OpenWriter
    \/ ProcessRecord
    \/ ReadFails
    \/ WriteFails
    \/ Finish
    \/ CloseFails

Spec == Init /\ [][Next]_vars

\* The tool is run again, with the same genome and keyword, on the file the
\* first run wrote.
Rerun ==
    /\ pc = "done"
    /\ run = 1
    /\ run' = 2
    /\ first_output' = output_vcf
    /\ input_vcf' = output_vcf
    /\ pc' = "open_genome"
    /\ genome' = "unopened"
    /\ reader' = "unopened"
    /\ writer' = "unopened"
    /\ idx' = 0
    /\ output_vcf' = <<>>
    /\ origin' = <<>>
    /\ processed_count' = 0
    /\ stderr' = <<>>
    /\ memory' = <<>>
    /\ outcomes' = <<>>
    /\ exit_code' = NoExit
    /\ fatal' = "none"
    /\ UNCHANGED <<genome_fasta, keyword, bounds_mode>>

NextRerun == Next \/ Rerun

SpecRerun == Init /\ [][NextRerun]_vars

(***************************************************************************)
(* Vocabulary of the properties                                            *)
(***************************************************************************)
\* the identifiers of a record, a scalar identifier counting as one
Identifiers(rec) ==
    CASE rec.ID.kind = "list"   -> {rec.ID.val[i] : i \in 1..Len(rec.ID.val)}
      [] rec.ID.kind = "scalar" -> {rec.ID.val[1]}
      [] OTHER                  -> {}

\* some identifier holds the keyword as a substring, case-sensitively
HasKeywordId(rec) == \E s \in Identifiers(rec) : Contains(keyword, s)

ContigExists(rec) == rec.CHROM \in DOMAIN genome_fasta

\* POS is a position of the record's contig
InRange(rec) == ContigExists(rec) /\ rec.POS \in 1..Len(genome_fasta[rec.CHROM])

UpperBases == {"A", "C", "G", "T", "N"}

\* ref is the one base at 1-based POS of the record's contig, in upper case
IsBaseAtPos(ref, rec) ==
    /\ InRange(rec)
    /\ Len(ref) = 1
    /\ ref[1] \in UpperBases
    /\ ref[1] = Upper(genome_fasta[rec.CHROM][rec.POS])

IsDup(rec) ==
    /\ rec.ALT = <<[kind |-> "symbolic", value |-> "DUP"]>>
    /\ InfoGet(rec.INFO, "SVTYPE") = "DUP"

SameAlleles(a, b) ==
    /\ a.REF = b.REF
    /\ a.ALT = b.ALT
    /\ InfoGet(a.INFO, "SVTYPE") = InfoGet(b.INFO, "SVTYPE")

\* the places in the output of the record read as number i
WrittenAt(i) == {j \in 1..Len(output_vcf) : origin[j] = i}

IsWarning(m) == m.kind \in {"contig_not_found", "error"}

Handled == 1..Len(memory)

(***************************************************************************)
(* C1: when process_vcf completes, the output holds as many records as the *)
(* input and its i-th record comes from the i-th input record.             *)
(***************************************************************************)
C1_OneToOneInOrder ==
    pc = "done" =>
        /\ Len(output_vcf) = Len(input_vcf)
        /\ \A j \in 1..Len(output_vcf) : origin[j] = j

(***************************************************************************)
(* C2: a record with the keyword whose contig the genome does not hold is  *)
(* written with its original REF, ALT and SVTYPE, and a warning naming its *)
(* contig and position is printed.                                         *)
(***************************************************************************)
C2_ContigMissForwarded ==
    pc = "done" =>
        \A i \in 1..Len(input_vcf) :
            (HasKeywordId(input_vcf[i]) /\ ~ContigExists(input_vcf[i])) =>
                /\ \E j \in WrittenAt(i) : SameAlleles(output_vcf[j], input_vcf[i])
                /\ \E k \in 1..Len(stderr) :
                      /\ stderr[k].kind = "contig_not_found"
                      /\ stderr[k].chrom = input_vcf[i].CHROM
                      /\ stderr[k].pos = input_vcf[i].POS

(***************************************************************************)
(* C3: a record with the keyword whose contig exists but whose lookup      *)
(* fails otherwise (POS past the end of the contig) gets a warning, is     *)
(* left unmodified and is written; its written REF is one base.            *)
(***************************************************************************)
C3_OtherErrorForwarded ==
    pc = "done" =>
        \A i \in 1..Len(input_vcf) :
            (/\ HasKeywordId(input_vcf[i])
             /\ ContigExists(input_vcf[i])
             /\ ~InRange(input_vcf[i])) =>
                /\ \E j \in WrittenAt(i) :
                      /\ output_vcf[j] = input_vcf[i]
                      /\ Len(output_vcf[j].REF) = 1
                /\ \E k \in 1..Len(stderr) :
                      /\ stderr[k].kind = "error"
                      /\ stderr[k].chrom = input_vcf[i].CHROM
                      /\ stderr[k].pos = input_vcf[i].POS

(***************************************************************************)
(* C4 as stated: after processing, every record with the keyword in an     *)
(* identifier and a contig the genome holds is in the output with REF the  *)
(* upper-cased single base at POS, ALT = <DUP> and SVTYPE = DUP.           *)
(***************************************************************************)
C4_EveryContigHit ==
    pc = "done" =>
        \A i \in 1..Len(input_vcf) :
            (HasKeywordId(input_vcf[i]) /\ ContigExists(input_vcf[i])) =>
                \E j \in WrittenAt(i) :
                    /\ IsBaseAtPos(output_vcf[j].REF, input_vcf[i])
                    /\ IsDup(output_vcf[j])

(***************************************************************************)
(* C4 amended: the same, for the records whose POS is a position of the    *)
(* contig (1 <= POS <= length of the contig).                              *)
(***************************************************************************)
C4_ContigHitInRange ==
    pc = "done" =>
        \A i \in 1..Len(input_vcf) :
            (HasKeywordId(input_vcf[i]) /\ InRange(input_vcf[i])) =>
                \E j \in WrittenAt(i) :
                    /\ IsBaseAtPos(output_vcf[j].REF, input_vcf[i])
                    /\ IsDup(output_vcf[j])

\* a completed run that rewrote a record from a lower-case base of the genome
C4_Witness ==
    /\ pc = "done"
    /\ \E i \in 1..Len(input_vcf) :
          /\ HasKeywordId(input_vcf[i])
          /\ InRange(input_vcf[i])
          /\ genome_fasta[input_vcf[i].CHROM][input_vcf[i].POS] \notin UpperBases
          /\ input_vcf[i].POS > 1
          /\ \E j \in WrittenAt(i) : output_vcf[j].REF # input_vcf[i].REF

(***************************************************************************)
(* C5: a record with no identifier, or none that holds the keyword, is     *)
(* written with every field as in the input; the genome is not queried for *)
(* it and no diagnostic is printed for it.                                 *)
(***************************************************************************)
C5_NonMatchingPassThrough ==
    /\ \A i \in Handled :
          ~HasKeywordId(input_vcf[i]) =>
              /\ outcomes[i] = "skipped"
              /\ memory[i] = input_vcf[i]
              /\ \/ \E j \in WrittenAt(i) : output_vcf[j] = input_vcf[i]
                 \/ fatal = "write_record" /\ i = idx
    /\ Cardinality({k \in 1..Len(stderr) : IsWarning(stderr[k])})
          = Cardinality({i \in Handled : HasKeywordId(input_vcf[i])
                                          /\ outcomes[i] # "processed"})

\* a completed run with a record whose identifier holds the keyword in another
\* case, one without identifier, and one that was rewritten
C5_Witness ==
    /\ pc = "done"
    /\ \E i \in Handled :
          /\ ~HasKeywordId(input_vcf[i])
          /\ Identifiers(input_vcf[i]) # {}
          /\ WrittenAt(i) # {}
    /\ \E i \in Handled :
          /\ Identifiers(input_vcf[i]) = {}
          /\ WrittenAt(i) # {}
    /\ \E i \in Handled : outcomes[i] = "processed"

(***************************************************************************)
(* C6: a second run, with the same genome and keyword, over the output of  *)
(* a first run writes the same records: as many, each with the same REF,   *)
(* ALT and SVTYPE as in the first output.                                  *)
(***************************************************************************)
C6_Idempotent ==
    (run = 2 /\ pc = "done") =>
        /\ Len(output_vcf) = Len(first_output)
        /\ \A j \in 1..Len(output_vcf) :
              /\ j \in 1..Len(first_output)
              /\ SameAlleles(output_vcf[j], first_output[j])
              /\ output_vcf[j].CHROM = first_output[j].CHROM
              /\ output_vcf[j].POS = first_output[j].POS
              /\ output_vcf[j].ID = first_output[j].ID

\* a completed second run that rewrote a record again
C6_Witness ==
    /\ run = 2
    /\ pc = "done"
    /\ processed_count > 0
    /\ \E j \in 1..Len(output_vcf) : outcomes[origin[j]] = "processed"
    /\ \E j \in 1..Len(output_vcf) : outcomes[origin[j]] = "skipped"

(***************************************************************************)
(* C7: on a rewritten record INFO[SVTYPE] is "DUP", whether the key was    *)
(* there or not; it is there once; every other INFO key keeps its value    *)
(* and the other keys keep their order; CHROM, POS and ID are unchanged.   *)
(***************************************************************************)
OtherEntries(info) == SelectSeq(info, LAMBDA e : e.key # "SVTYPE")

C7_SvtypeInsertOrReplace ==
    \A i \in Handled :
        outcomes[i] = "processed" =>
            /\ InfoGet(memory[i].INFO, "SVTYPE") = "DUP"
            /\ Cardinality({k \in 1..Len(memory[i].INFO) :
                               memory[i].INFO[k].key = "SVTYPE"}) = 1
            /\ OtherEntries(memory[i].INFO) = OtherEntries(input_vcf[i].INFO)
            /\ memory[i].CHROM = input_vcf[i].CHROM
            /\ memory[i].POS = input_vcf[i].POS
            /\ memory[i].ID = input_vcf[i].ID
            /\ \A j \in WrittenAt(i) : output_vcf[j] = memory[i]

\* a run that rewrote and wrote a record with SVTYPE=INS between two other
\* keys and a record without SVTYPE but with another key
C7_Witness ==
    /\ \E i \in Handled :
          /\ outcomes[i] = "processed"
          /\ WrittenAt(i) # {}
          /\ InfoGet(input_vcf[i].INFO, "SVTYPE") = "INS"
          /\ Len(OtherEntries(input_vcf[i].INFO)) = 2
    /\ \E i \in Handled :
          /\ outcomes[i] = "processed"
          /\ WrittenAt(i) # {}
          /\ InfoGet(input_vcf[i].INFO, "SVTYPE") = "absent"
          /\ Len(OtherEntries(input_vcf[i].INFO)) = 1

(***************************************************************************)
(* C8: on every path by which the run ends, with exit code 0 or 1, each    *)
(* handle that was opened has been closed.                                 *)
(***************************************************************************)
C8_HandlesClosedAtExit ==
    exit_code # NoExit =>
        /\ genome # "open"
        /\ reader # "open"
        /\ writer # "open"

(***************************************************************************)
(* C9 as stated: the run ends with exit code 1 only when the genome, the   *)
(* input or the output cannot be opened; a run in which they opened reads  *)
(* every record and ends with exit code 0.                                 *)
(***************************************************************************)
SetupSteps == {"open_genome", "open_reader", "open_writer"}

C9_OnlySetupIsFatal ==
    /\ exit_code = 1 => fatal \in SetupSteps
    /\ exit_code = 0 => Len(outcomes) = Len(input_vcf)

(***************************************************************************)
(* C9 amended: a step that ends a record with a contig-not-found or other  *)
(* per-record warning leaves the run in the loop with no exit code; a run  *)
(* that ends with exit code 0 has handled every input record; exit code 1  *)
(* comes from a failure to open the genome, the input or the output, or    *)
(* from reading a record, writing a record or closing the writer raising,  *)
(* never from the lookup or rewrite of a record.                           *)
(***************************************************************************)
C9_PerRecordErrorsNotFatal ==
    [][ /\ (/\ Len(outcomes') = Len(outcomes) + 1
            /\ outcomes'[Len(outcomes')] \notin {"skipped", "processed"})
           => (/\ pc' = "loop"
               /\ exit_code' = NoExit
               /\ idx' = idx + 1
               /\ Len(stderr') = Len(stderr) + 1
               /\ IsWarning(stderr'[Len(stderr')]))
        /\ exit_code' = 0 => Len(outcomes') = Len(input_vcf)
        /\ exit_code' = 1 =>
              fatal' \in SetupSteps \cup {"read_record", "write_record", "close"}
        /\ exit_code' = 1 <=> pc' = "exited"
        /\ exit_code' = 0 <=> pc' = "done"
      ]_vars

\* a run that ended with exit code 0 after a contig-not-found and another
\* per-record error, with a record rewritten after them
C9_Witness ==
    /\ exit_code = 0
    /\ \E i \in Handled : outcomes[i] = "contig_not_found"
    /\ \E i \in Handled : outcomes[i] = "error"
    /\ outcomes[Len(outcomes)] = "processed"

(***************************************************************************)
(* C10: a handled record is either field for field its input or has REF,   *)
(* ALT and INFO[SVTYPE] all rewritten, the latter only where the lookup    *)
(* succeeded; what is written is the record as handled, at most once; and  *)
(* processed_count is the number of rewritten records.                     *)
(***************************************************************************)
\* what the slice [POS-1, POS) of the contig holds, in upper case
SliceAtPos(rec) ==
    IF InRange(rec) THEN <<Upper(genome_fasta[rec.CHROM][rec.POS])>> ELSE <<>>

C10_NoPartialMutation ==
    /\ \A i \in Handled :
          \/ /\ outcomes[i] # "processed"
             /\ memory[i] = input_vcf[i]
          \/ /\ outcomes[i] = "processed"
             /\ HasKeywordId(input_vcf[i])
             /\ ContigExists(input_vcf[i])
             /\ memory[i].REF = SliceAtPos(input_vcf[i])
             /\ IsDup(memory[i])
    /\ \A j \in 1..Len(output_vcf) :
          /\ output_vcf[j] = memory[origin[j]]
          /\ Cardinality(WrittenAt(origin[j])) = 1
    /\ pc # "open_genome" /\ pc # "open_reader" /\ pc # "open_writer" =>
          processed_count = Cardinality({i \in Handled : outcomes[i] = "processed"})

\* a run in which one record was rewritten and two lookups failed
C10_Witness ==
    /\ processed_count = 1
    /\ \E i \in Handled : outcomes[i] = "processed" /\ memory[i] # input_vcf[i]
    /\ \E i \in Handled : outcomes[i] = "contig_not_found"
    /\ \E i \in Handled : outcomes[i] = "error"

====
